---- MODULE Spec2Model ----
(***************************************************************************)
(* pipeweld: a GTK window with two buttons that nudge the volume of the    *)
(* default sink by running `pactl`.  The module models                     *)
(*   - the program itself (main, setup_tracing_subscriber, build_ui, the   *)
(*     click handlers and AudioControls::change_volume_percent): Spec;     *)
(*   - the Display implementation of DiffValue on its own: SpecFmt;        *)
(*   - the Reactive<T> wrapper (in_scope, constant, reactive) on its own:  *)
(*     SpecReactive.                                                       *)
(* Text that the program formats is a sequence of one-character strings.   *)
(***************************************************************************)
EXTENDS Integers, Sequences, FiniteSets, TLC

VARIABLES
    \* ---- the program (Spec)
    pc,              \* position of the main (UI) thread
    rust_log,        \* the RUST_LOG environment variable
    env_filter,      \* the filter of the installed subscriber
    global_default,  \* tracing's process-wide "a global default is set"
    stderr,          \* lines written to standard error
    windows,         \* the widget trees build_ui has presented
    events,          \* clicks delivered by the display server, not yet handled
    clicked,         \* every click so far, in order
    invoked,         \* the argument of every change_volume_percent call
    calls,           \* every Command::output() call: program and arguments
    running,         \* indices (into calls) of subprocesses not yet exited
    results,         \* what every change_volume_percent call returned
    log,             \* events #[instrument(ret, err)] handed to tracing
    \* ---- Display for DiffValue (SpecFmt)
    fmt_in,          \* the i32 inside the DiffValue
    fmt_out,         \* what format!("{diff}") produced
    \* ---- Reactive<T> (SpecReactive)
    wrappers,        \* the Reactive values built so far, newest last
    ops,             \* every constant(..) and reactive(..) call
    effects,         \* the effects create_effect registered in the scope
    applied,         \* every execution of a modifier
    changes,         \* every signal change, in order
    disposed         \* the scope has been disposed

appVars == <<pc, rust_log, env_filter, global_default, stderr, windows, events,
             clicked, invoked, calls, running, results, log>>
fmtVars == <<fmt_in, fmt_out>>
rxVars  == <<wrappers, ops, effects, applied, changes, disposed>>
vars    == <<appVars, fmtVars, rxVars>>

(***************************************************************************)
(* Bounds of the model.                                                    *)
(***************************************************************************)
MaxClicks      == 3    \* clicks the user makes in one run
MaxActivations == 1    \* times the application is activated
FmtRange       == 40   \* SpecFmt formats -FmtRange..FmtRange and the extremes
MaxWidgets     == 2    \* Reactive: widgets built with in_scope
MaxOps         == 2    \* Reactive: modifiers applied or registered
MaxChanges     == 2    \* Reactive: signal changes

(***************************************************************************)
(* i32 and its decimal formatting ("{diff}").                              *)
(***************************************************************************)
I32Max == 2147483647
I32Min == -I32Max - 1

DigitChars == <<"0", "1", "2", "3", "4", "5", "6", "7", "8", "9">>

\* The decimal digits of |n| for n <= 0, most significant first, without
\* leading zeros.  Working on the non-positive side keeps |I32Min| in range.
RECURSIVE MagnitudeDigits(_)
MagnitudeDigits(n) ==
    LET last == (10 - (n % 10)) % 10
        rest == (n + last) \div 10
    IN  IF rest = 0 THEN <<DigitChars[last + 1]>>
        ELSE MagnitudeDigits(rest) \o <<DigitChars[last + 1]>>

\* Display for i32: a minus sign for negative values, then the magnitude.
FmtI32(d) ==
    IF d < 0 THEN <<"-">> \o MagnitudeDigits(d) ELSE MagnitudeDigits(-d)

\* A plausible slip: always writing the sign.
DisplayAlwaysSigned(diff) ==
    IF diff >= 0 THEN <<"+">> \o FmtI32(diff) \o <<"%">>
    ELSE FmtI32(diff) \o <<"%">>

\* impl Display for DiffValue
Display(diff) ==
    IF diff > 0 THEN <<"+">> \o FmtI32(diff) \o <<"%">>
    ELSE FmtI32(diff) \o <<"%">>

(***************************************************************************)
(* SpecFmt: a DiffValue is built from some i32 and formatted.              *)
(***************************************************************************)
FmtInputs ==
    ((-FmtRange)..FmtRange)
        \cup {I32Min, I32Min + 1, I32Max, I32Max - 1,
              -100, 100, -101, 101, -1000, 1000, -2147483640, 2147483640}

NotFormatted == <<>>

FmtInit ==
    /\ fmt_in \in FmtInputs
    /\ fmt_out = NotFormatted

\* format!("{diff}") with diff = DiffValue(fmt_in)
Format ==
    /\ fmt_out = NotFormatted
    /\ fmt_out' = Display(fmt_in)
    /\ UNCHANGED fmt_in

(***************************************************************************)
(* The program: environment and logging setup.                             *)
(***************************************************************************)
\* What std::env::var("RUST_LOG") can find.
Absent     == [kind |-> "absent"]
NotUnicode == [kind |-> "not_unicode"]
Value(s)   == [kind |-> "value", s |-> s]

DefaultDirectives == "pipeweld=info,warn"

\* Directive strings EnvFilter::try_new accepts, among those the model uses.
ValidDirectives == {"debug", DefaultDirectives}

EnvValues ==
    {Absent, NotUnicode, Value("debug"), Value("pipeweld=loud")}

Ok(v)  == [ok |-> TRUE, v |-> v]
Err(e) == [ok |-> FALSE, e |-> e]

\* std::env::var("RUST_LOG").wrap_err("no RUST_LOG env present")
EnvVar(env) ==
    IF env.kind = "value" THEN Ok(env.s) ELSE Err("no RUST_LOG env present")

\* EnvFilter::try_new
TryNew(directives) ==
    IF directives \in ValidDirectives THEN Ok(directives) ELSE Err("parse error")

\* A plausible slip: the parse error of RUST_LOG is propagated by `?`
\* instead of being replaced by the default filter.
BuildEnvFilterNoFallback(env) ==
    LET var == EnvVar(env)
    IN  IF var.ok THEN TryNew(var.v) ELSE TryNew(DefaultDirectives)

\* var(..).wrap_err(..).and_then(try_new ..).or_else(|_| try_new(default))
BuildEnvFilter(env) ==
    LET var    == EnvVar(env)
        parsed == IF var.ok THEN TryNew(var.v) ELSE var
    IN  IF parsed.ok THEN parsed ELSE TryNew(DefaultDirectives)

\* A plausible slip: installing over a freshly started process fails.
SetGlobalDefaultFails(already_set) == Err("SetGlobalDefaultError")

\* tracing::subscriber::set_global_default: fails when one is already set.
SetGlobalDefault(already_set) ==
    IF already_set THEN Err("SetGlobalDefaultError") ELSE Ok("set")

NoFilter == "none"

\* setup_tracing_subscriber: "ok", "err" (returned by `?`) or "panic"
\* (the expect on set_global_default), with the filter installed if any.
SetupTracingSubscriber(env, already_set) ==
    LET filter == BuildEnvFilter(env)
    IN  IF ~filter.ok
        THEN [outcome |-> "err", installed |-> FALSE, filter |-> NoFilter]
        ELSE IF SetGlobalDefault(already_set).ok
             THEN [outcome |-> "ok", installed |-> TRUE, filter |-> filter.v]
             ELSE [outcome |-> "panic", installed |-> FALSE, filter |-> NoFilter]

\* main, first block: set up logging, print a failure to standard error.
MainSetupTracing ==
    /\ pc = "start"
    /\ LET r == SetupTracingSubscriber(rust_log, global_default)
       IN  /\ pc' = IF r.outcome = "panic" THEN "panicked" ELSE "scope"
           /\ env_filter' = IF r.installed THEN r.filter ELSE env_filter
           /\ global_default' = (global_default \/ r.installed)
           /\ stderr' =
                CASE r.outcome = "err" ->
                        Append(stderr, "[ERROR] Setting up logging")
                  [] r.outcome = "panic" ->
                        Append(stderr, "Failed to set tracing subscriber.")
                  [] OTHER -> stderr
    /\ UNCHANGED <<rust_log, windows, events, clicked, invoked, calls, running,
                   results, log>>
    /\ UNCHANGED <<fmtVars, rxVars>>

\* main, second block: create the runtime and the scope, build the
\* Application, connect build_ui to "activate" and enter app.run().
MainRun ==
    /\ pc = "scope"
    /\ pc' = "run"
    /\ UNCHANGED <<rust_log, env_filter, global_default, stderr, windows,
                   events, clicked, invoked, calls, running, results, log>>
    /\ UNCHANGED <<fmtVars, rxVars>>

(***************************************************************************)
(* The program: the widget tree build_ui assembles.                        *)
(***************************************************************************)
Margin == 12

\* The two DiffValue literals of build_ui, in the order they are appended.
ButtonDiffs == <<-5, 5>>

\* Button::in_scope(cx): Button::builder().build()
DefaultButton ==
    [label |-> <<>>, margin_top |-> 0, margin_bottom |-> 0,
     margin_start |-> 0, margin_end |-> 0, on_clicked |-> <<>>]

\* A plausible slip: the handler is connected with the opposite delta.
DiffVolumeButtonSwapped(diff) ==
    [DefaultButton EXCEPT
        !.margin_top = Margin, !.margin_bottom = Margin,
        !.margin_start = Margin, !.margin_end = Margin,
        !.on_clicked = Append(@, -diff),
        !.label = Display(diff)]

\* diff_volume_button: the constant modifier sets the margins, connects one
\* clicked handler that captures diff, and sets the label.
DiffVolumeButton(diff) ==
    [DefaultButton EXCEPT
        !.margin_top = Margin, !.margin_bottom = Margin,
        !.margin_start = Margin, !.margin_end = Margin,
        !.on_clicked = Append(@, diff),
        !.label = Display(diff)]

\* gtk::Box::in_scope(cx).constant(..): vertical, the two buttons appended.
VolumeBox ==
    [orientation |-> "Vertical",
     children |-> <<DiffVolumeButton(ButtonDiffs[1]),
                    DiffVolumeButton(ButtonDiffs[2])>>]

\* Reactive::<ApplicationWindow>::in_scope(cx, app).constant(set_child ..)
\* followed by present().
VolumeWindow == [child |-> VolumeBox, presented |-> TRUE]

\* The buttons on screen: (window, position in the box).
Buttons ==
    {<<w, b>> : w \in 1..Len(windows), b \in 1..Len(ButtonDiffs)}

ButtonAt(wb) == windows[wb[1]].child.children[wb[2]]

\* The "activate" signal of the application: build_ui(cx, app).
Activate ==
    /\ pc \in {"run", "idle"}
    /\ Len(windows) < MaxActivations
    /\ windows' = Append(windows, VolumeWindow)
    /\ pc' = "idle"
    /\ UNCHANGED <<rust_log, env_filter, global_default, stderr, events,
                   clicked, invoked, calls, running, results, log>>
    /\ UNCHANGED <<fmtVars, rxVars>>

\* The user clicks a button; the click waits in the event queue until the
\* main loop is free to dispatch it.
UserClick(wb) ==
    /\ pc \in {"idle", "blocked"}
    /\ Len(clicked) < MaxClicks
    /\ events' = Append(events, wb)
    /\ clicked' = Append(clicked, wb)
    /\ UNCHANGED <<pc, rust_log, env_filter, global_default, stderr, windows,
                   invoked, calls, running, results, log>>
    /\ UNCHANGED <<fmtVars, rxVars>>

(***************************************************************************)
(* The program: AudioControls::change_volume_percent and the click         *)
(* handler.  Command::output() spawns the subprocess and blocks the        *)
(* calling thread until it has exited, so the call spans two steps: the    *)
(* spawn, and the exit of the subprocess.                                  *)
(***************************************************************************)
\* A plausible slip: the sign is dropped from the argument.
PactlCommandUnsigned(diff) ==
    [program |-> "pactl",
     args |-> <<"set-sink-volume", "@DEFAULT_SINK@", FmtI32(diff) \o <<"%">>>>]

\* Command::new("pactl").arg(..).arg(..).arg(format!("{diff}"))
PactlCommand(diff) ==
    [program |-> "pactl",
     args |-> <<"set-sink-volume", "@DEFAULT_SINK@", Display(diff)>>]

\* How a spawned subprocess can end.
Exited(code)  == [kind |-> "exited", code |-> code]
Signaled(sig) == [kind |-> "signaled", sig |-> sig]
ExitStatuses  == {Exited(0), Exited(1), Signaled(9)}
NoStatus      == [kind |-> "none"]

\* ExitStatus::success
Success(status) == status.kind = "exited" /\ status.code = 0

\* A plausible slip: the exit status is not looked at.
StatusResultIgnored(status) == Ok("unit")

\* out.status.success().then_some(()).ok_or_else(|| eyre!("command failed"))
StatusResult(status) ==
    IF Success(status) THEN Ok("unit") ELSE Err("command failed")

\* .output().wrap_err("running the command") when the spawn fails
SpawnError == Err("running the command")

\* #[instrument(ret, err)]: the event emitted as the function returns.
ReturnEvent(r) ==
    IF r.ok THEN [level |-> "INFO", ret |-> r.v]
    ELSE [level |-> "ERROR", err |-> r.e]

\* The record of one return of change_volume_percent.
Returned(call, spawned, status, r) ==
    [call |-> call, spawned |-> spawned, status |-> status, ret |-> r]

\* The one clicked handler of a button: the delta it captured.
Handler(button) == Head(button.on_clicked)

\* A plausible slip: the handler returns without waiting for the subprocess.
AfterSpawnDetached == "idle"

\* Where the UI thread is after a successful spawn: inside output().
AfterSpawn == "blocked"

\* A plausible slip: the handler unwraps the result instead of dropping it.
AfterReturnUnwrap(r) == IF r.ok THEN "idle" ELSE "panicked"

\* The handler ends with .ok(): whatever came back, the main loop goes on.
AfterReturn(r) == "idle"

\* The main loop dispatches the oldest queued click: the handler calls
\* change_volume_percent(diff), which runs the command.  If the spawn fails
\* the call returns at once and the handler drops the error.
HandleClick(spawned) ==
    /\ pc = "idle"
    /\ events /= <<>>
    /\ LET diff == Handler(ButtonAt(Head(events)))
           call == Len(calls) + 1
       IN  /\ events' = Tail(events)
           /\ invoked' = Append(invoked, diff)
           /\ calls' = Append(calls, PactlCommand(diff))
           /\ running' = IF spawned THEN running \cup {call} ELSE running
           /\ pc' = IF spawned THEN AfterSpawn ELSE AfterReturn(SpawnError)
           /\ results' =
                IF spawned THEN results
                ELSE Append(results, Returned(call, FALSE, NoStatus, SpawnError))
           /\ log' = IF spawned THEN log ELSE Append(log, ReturnEvent(SpawnError))
    /\ UNCHANGED <<rust_log, env_filter, global_default, stderr, windows,
                   clicked>>
    /\ UNCHANGED <<fmtVars, rxVars>>

\* The subprocess exits: output() returns, the status decides the result,
\* and the handler drops it.
ProcExit(call, status) ==
    /\ pc = "blocked"
    /\ call \in running
    /\ running' = running \ {call}
    /\ pc' = AfterReturn(StatusResult(status))
    /\ results' = Append(results, Returned(call, TRUE, status, StatusResult(status)))
    /\ log' = Append(log, ReturnEvent(StatusResult(status)))
    /\ UNCHANGED <<rust_log, env_filter, global_default, stderr, windows,
                   events, clicked, invoked, calls>>
    /\ UNCHANGED <<fmtVars, rxVars>>

\* The last window is closed: app.run() and main return.
Quit ==
    /\ pc = "idle"
    /\ windows /= <<>>
    /\ pc' = "exited"
    /\ UNCHANGED <<rust_log, env_filter, global_default, stderr, windows,
                   events, clicked, invoked, calls, running, results, log>>
    /\ UNCHANGED <<fmtVars, rxVars>>

(***************************************************************************)
(* Spec: the program from process start.                                   *)
(***************************************************************************)
FmtIdle == fmt_in = 0 /\ fmt_out = NotFormatted

RxIdle ==
    /\ wrappers = <<>>
    /\ ops = <<>>
    /\ effects = <<>>
    /\ applied = <<>>
    /\ changes = <<>>
    /\ disposed = FALSE

AppInit ==
    /\ pc = "start"
    /\ rust_log \in EnvValues
    /\ env_filter = NoFilter
    /\ global_default = FALSE
    /\ stderr = <<>>
    /\ windows = <<>>
    /\ events = <<>>
    /\ clicked = <<>>
    /\ invoked = <<>>
    /\ calls = <<>>
    /\ running = {}
    /\ results = <<>>
    /\ log = <<>>

Init == AppInit /\ FmtIdle /\ RxIdle

Next ==
    \/ MainSetupTracing
    \/ MainRun
    \/ Activate
    \/ \E wb \in Buttons : UserClick(wb)
    \/ \E spawned \in BOOLEAN : HandleClick(spawned)
    \/ \E call \in running, status \in ExitStatuses : ProcExit(call, status)
    \/ Quit

Spec == Init /\ [][Next]_vars

(***************************************************************************)
(* SpecFmt                                                                 *)
(***************************************************************************)
AppIdle ==
    /\ pc = "off"
    /\ rust_log = Absent
    /\ env_filter = NoFilter
    /\ global_default = FALSE
    /\ stderr = <<>>
    /\ windows = <<>>
    /\ events = <<>>
    /\ clicked = <<>>
    /\ invoked = <<>>
    /\ calls = <<>>
    /\ running = {}
    /\ results = <<>>
    /\ log = <<>>

InitFmt == AppIdle /\ FmtInit /\ RxIdle

NextFmt == Format /\ UNCHANGED <<appVars, rxVars>>

SpecFmt == InitFmt /\ [][NextFmt]_vars

(***************************************************************************)
(* The Reactive<T> wrapper.  A modifier is known by the signals it reads;  *)
(* a widget by the number in_scope gave it.  The wrapper is consumed and   *)
(* returned by every call of the chain, so the calls act on the wrapper    *)
(* built last.                                                             *)
(***************************************************************************)
Signals  == {"a", "b"}
ReadSets == {{}, {"a"}}

\* One execution of a modifier on a widget.
Application(op, widget, trigger) ==
    [op |-> op, widget |-> widget, trigger |-> trigger]

\* in_scope(cx): Reactive { inner: Self::builder().build(), cx }
InScope ==
    /\ Len(wrappers) < MaxWidgets
    /\ wrappers' = Append(wrappers, [inner |-> Len(wrappers) + 1])
    /\ UNCHANGED <<ops, effects, applied, changes, disposed>>
    /\ UNCHANGED <<appVars, fmtVars>>

Current == wrappers[Len(wrappers)]

\* A plausible slip: the modifier is applied a second time.
ConstantBodyTwice(op, inner) ==
    <<Application(op, inner, "constant"), Application(op, inner, "constant")>>

\* The body of constant: modifier(&mut self.inner)
ConstantBody(op, inner) == <<Application(op, inner, "constant")>>

\* A call of constant or reactive, as the chain sees it: which wrapper, what
\* the modifier reads, how many signal changes came before it, and how many
\* modifier executions had happened when it returned the wrapper.
Call(kind, reads, returned_at) ==
    [kind |-> kind, widget |-> Current.inner, reads |-> reads,
     changes_before |-> Len(changes), returned_at |-> returned_at]

\* Reactive::constant
Constant(reads) ==
    /\ wrappers /= <<>>
    /\ Len(ops) < MaxOps
    /\ LET op  == Len(ops) + 1
           now == applied \o ConstantBody(op, Current.inner)
       IN  /\ applied' = now
           /\ ops' = Append(ops, Call("constant", reads, Len(now)))
    /\ UNCHANGED <<wrappers, effects, changes, disposed>>
    /\ UNCHANGED <<appVars, fmtVars>>

\* A plausible slip: the effect closure applies the modifier twice.
EffectBodyTwice(op, inner, trigger) ==
    <<Application(op, inner, trigger), Application(op, inner, trigger)>>

\* The closure handed to create_effect: clone the widget handle (the clone
\* refers to the same widget) and apply the modifier to it.
EffectBody(op, inner, trigger) == <<Application(op, inner, trigger)>>

\* Reactive::reactive: create_effect registers the closure in the scope and
\* runs it once to learn which signals it reads.
Reactive(reads) ==
    /\ wrappers /= <<>>
    /\ ~disposed
    /\ Len(ops) < MaxOps
    /\ LET op  == Len(ops) + 1
           now == applied \o EffectBody(op, Current.inner, "registration")
       IN  /\ applied' = now
           /\ effects' = Append(effects,
                            [op |-> op, inner |-> Current.inner, deps |-> reads])
           /\ ops' = Append(ops, Call("reactive", reads, Len(now)))
    /\ UNCHANGED <<wrappers, changes, disposed>>
    /\ UNCHANGED <<appVars, fmtVars>>

\* The executions a change of signal s causes: every effect that read s
\* runs again, in the order of registration.
RECURSIVE Reruns(_, _)
Reruns(efs, s) ==
    IF efs = <<>> THEN <<>>
    ELSE (IF s \in Head(efs).deps
          THEN EffectBody(Head(efs).op, Head(efs).inner, "change")
          ELSE <<>>) \o Reruns(Tail(efs), s)

\* A signal is set.
SetSignal(s) ==
    /\ Len(changes) < MaxChanges
    /\ changes' = Append(changes, [signal |-> s, scope_live |-> ~disposed])
    /\ applied' = applied \o Reruns(effects, s)
    /\ UNCHANGED <<wrappers, ops, effects, disposed>>
    /\ UNCHANGED <<appVars, fmtVars>>

\* The scope is disposed: its effects are dropped.
DisposeScope ==
    /\ ~disposed
    /\ disposed' = TRUE
    /\ effects' = <<>>
    /\ UNCHANGED <<wrappers, ops, applied, changes>>
    /\ UNCHANGED <<appVars, fmtVars>>

InitReactive == AppIdle /\ FmtIdle /\ RxIdle

NextReactive ==
    \/ InScope
    \/ \E reads \in ReadSets : Constant(reads)
    \/ \E reads \in ReadSets : Reactive(reads)
    \/ \E s \in Signals : SetSignal(s)
    \/ DisposeScope

SpecReactive == InitReactive /\ [][NextReactive]_vars

(***************************************************************************)
(* Reading a formatted delta back, written independently of Display.       *)
(***************************************************************************)
IsDigit(c) == \E i \in 1..10 : DigitChars[i] = c

DigitValue(c) == CHOOSE i \in 0..9 : DigitChars[i + 1] = c

Front(seq) == SubSeq(seq, 1, Len(seq) - 1)

\* Minus the value of a digit string (accumulated on the non-positive side).
RECURSIVE NegValue(_)
NegValue(ds) ==
    IF ds = <<>> THEN 0
    ELSE NegValue(Front(ds)) * 10 - DigitValue(ds[Len(ds)])

\* A canonical decimal magnitude: digits only, no leading zero.
IsMagnitude(ds) ==
    /\ ds /= <<>>
    /\ \A i \in 1..Len(ds) : IsDigit(ds[i])
    /\ Len(ds) > 1 => ds[1] /= "0"

Occurrences(seq, c) == Cardinality({i \in 1..Len(seq) : seq[i] = c})

\* text is "{sign}{value}%" for d: "+" only when d > 0, "-" only when
\* d < 0, the magnitude of d in decimal, and one closing percent sign.
IsSignedPercent(text, d) ==
    /\ Len(text) >= 2
    /\ text[Len(text)] = "%"
    /\ Occurrences(text, "%") = 1
    /\ LET body == Front(text)
       IN  CASE d > 0 -> /\ body[1] = "+"
                         /\ IsMagnitude(Tail(body))
                         /\ NegValue(Tail(body)) = -d
             [] d < 0 -> /\ body[1] = "-"
                         /\ IsMagnitude(Tail(body))
                         /\ NegValue(Tail(body)) = d
             [] OTHER -> body = <<"0">>

Minus5 == <<"-", "5", "%">>
Plus5  == <<"+", "5", "%">>

(***************************************************************************)
(* Claims about the program (Spec).                                        *)
(***************************************************************************)
\* The clicks the main loop has dispatched so far.
Dispatched == Len(clicked) - Len(events)

\* C1: the i-th call is the one for the i-th click: pactl set-sink-volume
\* @DEFAULT_SINK@ followed by the label of the clicked button, which is
\* "-5%" or "+5%"; every dispatched click has issued its call.
C1_ClickIssuesLabelledCall ==
    /\ Len(calls) = Dispatched
    /\ \A i \in 1..Len(calls) :
          LET label == ButtonAt(clicked[i]).label
          IN  /\ calls[i].program = "pactl"
              /\ calls[i].args[1] = "set-sink-volume"
              /\ calls[i].args[2] = "@DEFAULT_SINK@"
              /\ calls[i].args[3] = label
              /\ label \in {Minus5, Plus5}
              /\ (clicked[i][2] = 1) <=> (label = Minus5)

\* "+5%" was clicked before "-5%" and both calls were issued in that order.
C1_Witness ==
    /\ Len(calls) >= 2
    /\ calls[1].args[3] = Plus5
    /\ calls[2].args[3] = Minus5
    /\ ButtonAt(clicked[1]).label = Plus5

\* C2: every invocation of change_volume_percent(d) has issued exactly one
\* process call, with the three arguments set-sink-volume, @DEFAULT_SINK@
\* and {sign}{value}% for d; a call is in flight or has returned exactly
\* once, so a failure is never followed by a retry.
C2_OneCallThreeArguments ==
    /\ Len(calls) = Len(invoked)
    /\ \A i \in 1..Len(calls) :
          /\ Len(calls[i].args) = 3
          /\ calls[i].args[1] = "set-sink-volume"
          /\ calls[i].args[2] = "@DEFAULT_SINK@"
          /\ IsSignedPercent(calls[i].args[3], invoked[i])
    /\ Len(results) + Cardinality(running) = Len(calls)
    /\ \A i, j \in 1..Len(results) : results[i].call = results[j].call => i = j
    /\ \A i \in 1..Len(results) : results[i].call \notin running

\* A spawn failure and a failing exit have both been followed by the call
\* of the next invocation, and only by that one.
C2_Witness ==
    /\ Len(invoked) = 3
    /\ Len(results) >= 2
    /\ ~results[1].spawned
    /\ results[2].spawned /\ ~results[2].ret.ok
    /\ invoked[3] = 5

\* C4: a call returns Ok exactly when the subprocess was spawned and exited
\* with status 0; Err "running the command" when the spawn failed; Err
\* "command failed" when it was spawned and ended otherwise.
C4_ResultKinds ==
    \A i \in 1..Len(results) :
        LET r == results[i]
        IN  /\ r.ret.ok <=> (r.spawned /\ r.status = Exited(0))
            /\ ~r.spawned => r.ret = Err("running the command")
            /\ (r.spawned /\ r.status /= Exited(0)) => r.ret = Err("command failed")
            /\ ~r.ret.ok => r.ret.e \in {"running the command", "command failed"}

\* All three outcomes have been returned.
C4_Witness ==
    /\ \E i \in 1..Len(results) : results[i].ret.ok
    /\ \E i \in 1..Len(results) : results[i].ret = Err("running the command")
    /\ \E i \in 1..Len(results) :
          results[i].ret = Err("command failed") /\ results[i].status = Exited(1)

\* A step in which change_volume_percent returns an error.
FailureReturns ==
    /\ Len(results') = Len(results) + 1
    /\ ~results'[Len(results')].ret.ok

\* C5: a step in which a volume change fails leaves the windows (labels and
\* handlers included) and standard error as they were and the main loop
\* running; and whatever earlier calls returned, the i-th call is the
\* command of the i-th clicked button's handler.
C5_FailureNotSurfaced ==
    /\ [][FailureReturns =>
            /\ windows' = windows
            /\ stderr' = stderr
            /\ pc' = "idle"
            /\ \/ events' = events
               \/ events /= <<>> /\ events' = Tail(events)]_vars
    /\ [](\A i \in 1..Len(calls) :
            calls[i] = PactlCommand(Handler(ButtonAt(clicked[i]))))

\* A call failed, the application is still running and a later click has
\* issued its call.
C5_Witness ==
    /\ pc \in {"idle", "blocked"}
    /\ \E k \in 1..Len(results) :
          /\ ~results[k].ret.ok
          /\ results[k].call < Len(calls)

RustLogUsable == rust_log.kind = "value" /\ rust_log.s \in ValidDirectives

HandleAnyClick == \E spawned \in BOOLEAN : HandleClick(spawned)

\* C10: at most one subprocess is in flight; while one is, the UI thread is
\* blocked in output(), it is the subprocess of the latest call (every
\* earlier one has exited) and no click can be handled.
C10_BlockingCall ==
    /\ Cardinality(running) <= 1
    /\ running /= {} =>
          /\ pc = "blocked"
          /\ running = {Len(calls)}
          /\ ~ENABLED HandleAnyClick
    /\ pc = "blocked" => running /= {}

\* The second subprocess is running while a further click waits.
C10_Witness ==
    /\ running = {2}
    /\ events /= <<>>
    /\ Len(results) = 1

(***************************************************************************)
(* Claim about Display for DiffValue (SpecFmt).                            *)
(***************************************************************************)
\* C3: the Display string of DiffValue(d) is +{d}% when d > 0 and {d}% when
\* d <= 0: 5 gives "+5%", -5 gives "-5%", 0 gives "0%".
C3_DisplayForm ==
    fmt_out /= NotFormatted =>
        /\ IsSignedPercent(fmt_out, fmt_in)
        /\ fmt_in = 5 => fmt_out = Plus5
        /\ fmt_in = -5 => fmt_out = Minus5
        /\ fmt_in = 0 => fmt_out = <<"0", "%">>
        /\ (fmt_out[1] = "+") <=> (fmt_in > 0)

\* Zero has been formatted.
C3_Witness == fmt_in = 0 /\ fmt_out = <<"0", "%">>

(***************************************************************************)
(* Claims about Reactive<T> (SpecReactive).                                *)
(***************************************************************************)
\* The executions of the modifier of call op.
Runs(op) == {j \in 1..Len(applied) : applied[j].op = op}

\* The changes, after call op and while the scope lived, of a signal its
\* modifier reads.
DependencyChanges(op) ==
    {k \in (ops[op].changes_before + 1)..Len(changes) :
        changes[k].signal \in ops[op].reads /\ changes[k].scope_live}

\* C6: the modifier of a constant call has run exactly once, on the
\* wrapper's own widget, before the call returned, whatever signals have
\* changed since.
C6_ConstantRunsOnce ==
    \A op \in 1..Len(ops) :
        ops[op].kind = "constant" =>
            /\ Cardinality(Runs(op)) = 1
            /\ \A j \in Runs(op) :
                  /\ applied[j].widget = ops[op].widget
                  /\ j <= ops[op].returned_at

\* A constant modifier reads a signal that changed afterwards, in a live
\* scope that also holds an effect.
C6_Witness ==
    /\ \E op \in 1..Len(ops) :
          /\ ops[op].kind = "constant"
          /\ DependencyChanges(op) /= {}
    /\ effects /= <<>>

\* C7 as stated: the modifier of a reactive call has run as many times as
\* its dependencies have changed since the call.
C7_RunsEqualChanges ==
    \A op \in 1..Len(ops) :
        ops[op].kind = "reactive" =>
            Cardinality(Runs(op)) = Cardinality(DependencyChanges(op))

\* C7 amended: the modifier of a reactive call has run once when it was
\* registered and once more for every change of a signal it reads, while
\* the scope lives.
C7_RunsOncePlusChanges ==
    \A op \in 1..Len(ops) :
        ops[op].kind = "reactive" =>
            /\ Cardinality(Runs(op)) = 1 + Cardinality(DependencyChanges(op))
            /\ \A j \in Runs(op) : applied[j].widget = ops[op].widget

\* A reactive modifier that reads "a" was registered, then "a" changed
\* twice.
C7_Witness ==
    \E op \in 1..Len(ops) :
        /\ ops[op].kind = "reactive"
        /\ Cardinality(DependencyChanges(op)) = 2
        /\ Cardinality(Runs(op)) = 3
====
